---- MODULE Spec2Model ----
(***************************************************************************)
(* Model of the CAN signal tools under tools/parsers:                      *)
(*   decode_log_from_csv.py   (log decoder)                                *)
(*   decode_frame_from_csv.py (single-frame decoder)                       *)
(*   csv_to_dbc.py            (DBC serializer)                             *)
(*                                                                         *)
(* Text is a sequence of one-character strings, so that stripping, case    *)
(* folding, splitting and number parsing are computed character by         *)
(* character as Python computes them.  A Python int is unbounded; the      *)
(* 64-bit frame word is carried as its sequence of bits, least significant *)
(* first, and becomes an Integer only where the field is narrow.  A float  *)
(* is carried as an exact count of tenths.                                 *)
(* The result of a call that may raise is a record [ok, val]: ok = FALSE   *)
(* is the raised exception (ValueError, AttributeError, IndexError).       *)
(* A local of the source that is used several times is a parameter of a    *)
(* helper operator (named ..._of, ..._from) rather than a LET.             *)
(***************************************************************************)
EXTENDS Integers, Sequences, FiniteSets, TLC

\* ------------------------------------------------------------------ text

UpperChars == <<"A","B","C","D","E","F","G","H","I","J","K","L","M",
                "N","O","P","Q","R","S","T","U","V","W","X","Y","Z">>
LowerChars == <<"a","b","c","d","e","f","g","h","i","j","k","l","m",
                "n","o","p","q","r","s","t","u","v","w","x","y","z">>
DigitChars == <<"0","1","2","3","4","5","6","7","8","9">>
HexChars   == <<"0","1","2","3","4","5","6","7","8","9","a","b","c","d","e","f">>
UpperHexChars == <<"0","1","2","3","4","5","6","7","8","9","A","B","C","D","E","F">>

Range(s) == { s[i] : i \in DOMAIN s }

IndexOf(c, s) == CHOOSE i \in DOMAIN s : s[i] = c

UpperSet == Range(UpperChars)
LowerSet == Range(LowerChars)
DigitSet == Range(DigitChars)
HexSet   == Range(HexChars) \cup Range(UpperHexChars)
LowerMap == [c \in UpperSet |-> LowerChars[IndexOf(c, UpperChars)]]

\* str.lower() on one character
LowerChar(c) == IF c \in UpperSet THEN LowerMap[c] ELSE c

\* str.lower()
Lower(s) == [i \in DOMAIN s |-> LowerChar(s[i])]

\* the characters str.strip() and \s treat as whitespace
IsSpace(c) == c \in {" ", "\t", "\n", "\r"}

IsDigit(c) == c \in DigitSet

IsHexDigit(c) == c \in HexSet

\* str.isalpha() on one character
IsAlpha(c) == c \in UpperSet \/ c \in LowerSet

\* [A-Za-z0-9_]
IsWordChar(c) == IsAlpha(c) \/ IsDigit(c) \/ c = "_"

RECURSIVE LStrip(_)
LStrip(s) == IF s # <<>> /\ IsSpace(Head(s)) THEN LStrip(Tail(s)) ELSE s

RECURSIVE RStrip(_)
RStrip(s) == IF s # <<>> /\ IsSpace(s[Len(s)]) THEN RStrip(SubSeq(s, 1, Len(s) - 1)) ELSE s

\* str.strip()
Strip(s) == RStrip(LStrip(s))

\* str.startswith(p)
StartsWith(s, p) == Len(s) >= Len(p) /\ SubSeq(s, 1, Len(p)) = p

\* p in s  (substring test)
Contains(s, p) == \E i \in 0..(Len(s) - Len(p)) : SubSeq(s, i + 1, i + Len(p)) = p

\* the place of the first character of s that is sep (0: none)
FirstAt(s, sep) ==
    IF \E i \in DOMAIN s : s[i] = sep
    THEN CHOOSE i \in DOMAIN s : s[i] = sep /\ \A j \in 1..(i - 1) : s[j] # sep
    ELSE 0

\* str.split(sep) for a one-character separator: keeps empty fields
RECURSIVE SplitAt(_, _, _)
SplitAt(s, sep, k) ==
    IF k = 0 THEN <<s>>
    ELSE <<SubSeq(s, 1, k - 1)>>
         \o SplitAt(SubSeq(s, k + 1, Len(s)), sep, FirstAt(SubSeq(s, k + 1, Len(s)), sep))

SplitOn(s, sep) == SplitAt(s, sep, FirstAt(s, sep))

\* the place of the first whitespace character of s (0: none)
FirstSpaceAt(s) ==
    IF \E i \in DOMAIN s : IsSpace(s[i])
    THEN CHOOSE i \in DOMAIN s : IsSpace(s[i]) /\ \A j \in 1..(i - 1) : ~IsSpace(s[j])
    ELSE 0

\* str.split() with no argument: runs of whitespace separate, no empty fields
RECURSIVE SplitWsAt(_, _)
SplitWsAt(t, k) ==
    IF t = <<>> THEN <<>>
    ELSE IF k = 0 THEN <<t>>
    ELSE <<SubSeq(t, 1, k - 1)>>
         \o SplitWsAt(LStrip(SubSeq(t, k + 1, Len(t))), FirstSpaceAt(LStrip(SubSeq(t, k + 1, Len(t)))))

SplitWs(s) == SplitWsAt(LStrip(s), FirstSpaceAt(LStrip(s)))

\* a missing column: csv.DictReader's restval, None
None == <<"None">>

\* Python truthiness of a field: None and "" are false
Truthy(s) == s # None /\ s # <<>>

\* ------------------------------------------------------------- numbers

Ok(v) == [ok |-> TRUE, val |-> v]
Raise == [ok |-> FALSE, val |-> 0]

Pow2(n) == 2 ^ n

HexValMap == [c \in HexSet |-> IndexOf(LowerChar(c), HexChars) - 1]
DecValMap == [c \in DigitSet |-> IndexOf(c, DigitChars) - 1]

HexVal(c) == HexValMap[c]

RECURSIVE HexDigitsVal(_)
HexDigitsVal(s) == IF s = <<>> THEN 0
                   ELSE 16 * HexDigitsVal(SubSeq(s, 1, Len(s) - 1)) + HexVal(s[Len(s)])

RECURSIVE DecDigitsVal(_)
DecDigitsVal(s) == IF s = <<>> THEN 0
                   ELSE 10 * DecDigitsVal(SubSeq(s, 1, Len(s) - 1)) + DecValMap[s[Len(s)]]

AllHex(s) == \A i \in DOMAIN s : IsHexDigit(s[i])
AllDigits(s) == \A i \in DOMAIN s : IsDigit(s[i])

HexDigitsOrRaise(d) == IF d # <<>> /\ AllHex(d) THEN Ok(HexDigitsVal(d)) ELSE Raise

\* int(s, 16): surrounding whitespace and an optional 0x prefix are accepted,
\* at least one hex digit is required
IntBase16_of(t) ==
    HexDigitsOrRaise(IF StartsWith(Lower(t), <<"0", "x">>) THEN SubSeq(t, 3, Len(t)) ELSE t)

IntBase16(s) == IntBase16_of(Strip(s))

\* float(s) as a count of tenths: digits, optionally a point and digits
\* (the texts of the model carry at most one fractional digit)
FloatTenths_of(parts) ==
    IF Len(parts) = 1
    THEN IF parts[1] # <<>> /\ AllDigits(parts[1]) THEN Ok(10 * DecDigitsVal(parts[1])) ELSE Raise
    ELSE IF /\ Len(parts) = 2
            /\ AllDigits(parts[1]) /\ AllDigits(parts[2])
            /\ parts[1] \o parts[2] # <<>>
            /\ Len(parts[2]) <= 1
         THEN Ok(10 * DecDigitsVal(parts[1]) + DecDigitsVal(parts[2]))
         ELSE Raise

FloatTenths(s) == FloatTenths_of(SplitOn(Strip(s), "."))

\* int(f): truncation toward zero
IntOfTenths(f) == IF f.ok THEN Ok(f.val \div 10) ELSE Raise

\* int(float(s))
IntFloat(s) == IntOfTenths(FloatTenths(s))

\* ------------------------------------------------- unbounded integers

\* the bits of one byte, least significant first
ByteBits(b) == [i \in 1..8 |-> (b \div Pow2(i - 1)) % 2]

\* int.from_bytes(data, byteorder="little", signed=False), as bits
RECURSIVE from_bytes_little(_)
from_bytes_little(data) ==
    IF data = <<>> THEN <<>> ELSE ByteBits(Head(data)) \o from_bytes_little(Tail(data))

\* (1 << n) - 1, as bits
MaskBits(n) == [i \in 1..n |-> 1]

\* bit k (k = 0 is the least significant) of an integer given as bits
BitAt(bits, k) == IF k + 1 \in DOMAIN bits THEN bits[k + 1] ELSE 0

\* v >> n
ShiftRight(bits, n) == SubSeq(bits, n + 1, Len(bits))

\* a & b
BitAnd(a, b) ==
    [i \in 1..(IF Len(a) < Len(b) THEN Len(a) ELSE Len(b)) |-> IF a[i] = 1 /\ b[i] = 1 THEN 1 ELSE 0]

\* (v << 1) | bit
ShiftInBit(bits, bit) == <<bit>> \o bits

\* the Integer a bit sequence stands for (narrow fields only)
RECURSIVE BitsToNat(_)
BitsToNat(bits) == IF bits = <<>> THEN 0 ELSE Head(bits) + 2 * BitsToNat(Tail(bits))

\* --------------------------------------------------------------- codec

\* int.from_bytes(data, byteorder="big"), as bits
RECURSIVE from_bytes_big(_)
from_bytes_big(data) ==
    IF data = <<>> THEN <<>> ELSE from_bytes_big(Tail(data)) \o ByteBits(Head(data))

\* mutant of get_little_endian: the word is read in big-endian byte order
get_little_endian_big_order(data, start_bit, bit_len) ==
    BitAnd(ShiftRight(from_bytes_big(data), start_bit), MaskBits(bit_len))

get_little_endian(data, start_bit, bit_len) ==
    BitAnd(ShiftRight(from_bytes_little(data), start_bit), MaskBits(bit_len))

\* data[byte_index] raises IndexError past the last byte
big_endian_in_range(data, start_bit, bit_len) ==
    bit_len <= 0 \/ (start_bit + bit_len - 1) \div 8 < Len(data)

\* mutant of the bit numbering: bit 0 is the least significant bit of byte 0
big_endian_bit_lsb_first(data, bit_index) ==
    (data[(bit_index \div 8) + 1] \div Pow2(bit_index % 8)) % 2

\* bit i of the loop: (data[byte_index] >> bit_in_byte) & 1
big_endian_bit(data, bit_index) ==
    (data[(bit_index \div 8) + 1] \div Pow2(7 - (bit_index % 8))) % 2

RECURSIVE get_big_endian(_, _, _)
get_big_endian(data, start_bit, bit_len) ==
    IF bit_len <= 0 THEN <<>>
    ELSE ShiftInBit(get_big_endian(data, start_bit, bit_len - 1),
                    big_endian_bit(data, start_bit + (bit_len - 1)))

\* mutant of to_signed: the sign bit is taken one place too high
to_signed_wrong_sign_bit(value, bit_len) ==
    IF (value \div Pow2(bit_len)) % 2 = 1 THEN value - Pow2(bit_len) ELSE value

to_signed(value, bit_len) ==
    IF (value \div Pow2(bit_len - 1)) % 2 = 1 THEN value - Pow2(bit_len) ELSE value

\* ----------------------------------------- log decoder: line parsing

NoFrame    == [kind |-> "none",  ts |-> <<>>, cid |-> 0, data |-> <<>>]
RaisedLine == [kind |-> "raise", ts |-> <<>>, cid |-> 0, data |-> <<>>]
Frame(ts, cid, data) == [kind |-> "frame", ts |-> ts, cid |-> cid, data |-> data]

\* mutant of parse_can_id: every id text is read as hexadecimal
log_parse_can_id_hex(s) == IntBase16(s)

\* decode_log_from_csv.parse_can_id, after s = s.strip()
log_parse_can_id_of(s) ==
    IF \/ StartsWith(Lower(s), <<"0", "x">>)
       \/ (s # <<>> /\ AllHex(s) /\ (\E i \in DOMAIN s : IsAlpha(s[i])))
    THEN IntBase16(s)
    ELSE IntFloat(s)

log_parse_can_id(s) == log_parse_can_id_of(Strip(s))

\* bytes.fromhex on an even number of hex digits
RECURSIVE FromHex(_)
FromHex(h) == IF Len(h) < 2 THEN <<>>
              ELSE <<16 * HexVal(h[1]) + HexVal(h[2])>> \o FromHex(SubSeq(h, 3, Len(h)))

parse_bytes_from_hex_data_of(hexdata) ==
    IF hexdata = <<>> THEN <<>>
    ELSE IF Len(hexdata) % 2 # 0 THEN FromHex(hexdata \o <<"0">>)
    ELSE FromHex(hexdata)

parse_bytes_from_hex_data(hexdata) == parse_bytes_from_hex_data_of(Strip(hexdata))

StripEach(parts) == [i \in DOMAIN parts |-> Strip(parts[i])]

\* one field holding spaces is split on whitespace instead
CsvParts_of(parts) ==
    IF Len(parts) = 1 /\ (\E i \in DOMAIN parts[1] : parts[1][i] = " ")
    THEN SplitWs(parts[1]) ELSE parts

\* the comma-separated fields of rest, each stripped
CsvParts(rest) == CsvParts_of(StripEach(SplitOn(rest, ",")))

\* bytes(...) of the parsed values; bytes() rejects a value over 255
BytesOrRaise(vals) ==
    IF \A i \in DOMAIN vals : vals[i].ok /\ vals[i].val <= 255
    THEN Ok([i \in DOMAIN vals |-> vals[i].val])
    ELSE Raise

\* bytes(int(p, 16) for p in parts[:8])
parse_bytes_from_csv_parts_of(parts) ==
    IF Len(parts) < 8 THEN Raise
    ELSE BytesOrRaise([i \in 1..8 |-> IntBase16(parts[i])])

parse_bytes_from_csv_parts(rest) == parse_bytes_from_csv_parts_of(CsvParts(rest))

RECURSIVE JoinComma(_)
JoinComma(fields) == IF fields = <<>> THEN <<>>
                     ELSE IF Len(fields) = 1 THEN fields[1]
                     ELSE fields[1] \o <<",">> \o JoinComma(Tail(fields))

NoCsvMatch == [matched |-> FALSE, ts |-> <<>>, id |-> <<>>, rest |-> <<>>]

\* the groups of CSV_RE given the first two fields and the text after the
\* second comma
CSV_RE_groups(ts, id, rest) ==
    IF ts # <<>> /\ id # <<>> /\ rest # <<>>
    THEN [matched |-> TRUE, ts |-> RStrip(ts), id |-> id, rest |-> LStrip(rest)]
    ELSE NoCsvMatch

CSV_RE_match_of(f) ==
    IF Len(f) >= 3 THEN CSV_RE_groups(f[1], f[2], JoinComma(SubSeq(f, 3, Len(f))))
    ELSE NoCsvMatch

\* CSV_RE: ts , id , rest -- two commas, each group at least one character
CSV_RE_match(line) == CSV_RE_match_of(SplitOn(line, ","))

DigitsDotDigits(p) ==
    Len(p) = 2 /\ p[1] # <<>> /\ p[2] # <<>> /\ AllDigits(p[1]) /\ AllDigits(p[2])

\* \([0-9]+\.[0-9]+\)
IsTsToken(t) ==
    /\ Len(t) >= 5 /\ t[1] = "(" /\ t[Len(t)] = ")"
    /\ DigitsDotDigits(SplitOn(SubSeq(t, 2, Len(t) - 1), "."))

\* [A-Za-z0-9_]+
IsIfaceToken(t) == t # <<>> /\ \A i \in DOMAIN t : IsWordChar(t[i])

NoDumpMatch == [matched |-> FALSE, ts |-> None, id |-> <<>>, data |-> <<>>]

\* the last token: [0-9A-Fa-f]+ # [0-9A-Fa-f]*
CAN_DUMP_RE_groups(ts, p) ==
    IF Len(p) = 2 /\ p[1] # <<>> /\ AllHex(p[1]) /\ AllHex(p[2])
    THEN [matched |-> TRUE, ts |-> ts, id |-> p[1], data |-> p[2]]
    ELSE NoDumpMatch

\* the tokens before it: optional (timestamp), optional interface
CAN_DUMP_RE_match_of(t) ==
    CASE Len(t) = 1 -> CAN_DUMP_RE_groups(None, SplitOn(t[1], "#"))
      [] Len(t) = 2 /\ IsTsToken(t[1]) ->
             CAN_DUMP_RE_groups(SubSeq(t[1], 2, Len(t[1]) - 1), SplitOn(t[2], "#"))
      [] Len(t) = 2 /\ ~IsTsToken(t[1]) /\ IsIfaceToken(t[1]) ->
             CAN_DUMP_RE_groups(None, SplitOn(t[2], "#"))
      [] Len(t) = 3 /\ IsTsToken(t[1]) /\ IsIfaceToken(t[2]) ->
             CAN_DUMP_RE_groups(SubSeq(t[1], 2, Len(t[1]) - 1), SplitOn(t[3], "#"))
      [] OTHER -> NoDumpMatch

\* CAN_DUMP_RE: the groups of a match; ts is None when its group took no part
CAN_DUMP_RE_match(line) == CAN_DUMP_RE_match_of(SplitWs(line))

\* return (ts, cid, data) of the CSV branch; either parse may raise
frame_of_csv(ts, cid, data) ==
    IF ~cid.ok THEN RaisedLine
    ELSE IF ~data.ok THEN RaisedLine
    ELSE Frame(ts, cid.val, data.val)

frame_of_match(line, m, d) ==
    IF line = <<>> \/ Head(line) = "#" THEN NoFrame
    ELSE IF m.matched
    THEN frame_of_csv(Strip(m.ts), log_parse_can_id(m.id), parse_bytes_from_csv_parts(m.rest))
    ELSE IF d.matched
    THEN Frame(d.ts, IntBase16(d.id).val, parse_bytes_from_hex_data(d.data))
    ELSE NoFrame

parse_frame_line_of(line) == frame_of_match(line, CSV_RE_match(line), CAN_DUMP_RE_match(line))

parse_frame_line(line) == parse_frame_line_of(Strip(line))

\* ------------------------------------------- log decoder: signal table

T_signed   == <<"s","i","g","n","e","d">>
T_s        == <<"s">>
T_1        == <<"1">>
T_0        == <<"0">>
T_true     == <<"t","r","u","e">>
T_yes      == <<"y","e","s">>
T_motorola == <<"m","o","t","o","r","o","l","a">>
T_big      == <<"b","i","g">>
T_be       == <<"b","e">>
T_msb      == <<"m","s","b">>

\* x or d, then int(float(.)): a blank or missing field takes the default
IntFloatOr(x, d) == IF Truthy(x) THEN IntFloat(x) ELSE Ok(d)

\* float(x or d), in tenths
FloatOr(x, d) == IF Truthy(x) THEN FloatTenths(x) ELSE Ok(10 * d)

\* load_signals: signed=(row.get("signedness", "").strip().lower() in (...))
log_is_signed(x) == Strip(Lower(x)) \in {T_signed, T_s, T_1, T_true, T_yes}

\* load_signals: big_endian=(row.get("endian", "").strip().lower() in (...))
log_is_big_endian(x) ==
    Strip(Lower(x)) \in {T_motorola, T_big, T_be, T_msb, T_0, T_true, T_yes}

\* SignalDef(...); .strip() on a missing (None) field raises
SignalDef_from(row, can_id, start_bit, bit_length, offset, scale, dlc) ==
    IF /\ can_id.ok /\ start_bit.ok /\ bit_length.ok /\ offset.ok /\ scale.ok /\ dlc.ok
       /\ row.units # None /\ row.signedness # None /\ row.endian # None
    THEN Ok([name       |-> Strip(row.name),
             can_id     |-> can_id.val,
             units      |-> Strip(row.units),
             start_bit  |-> start_bit.val,
             bit_length |-> bit_length.val,
             offset     |-> offset.val,
             scale      |-> scale.val,
             signed     |-> log_is_signed(row.signedness),
             big_endian |-> log_is_big_endian(row.endian),
             dlc        |-> dlc.val])
    ELSE Raise

SignalDefOf(row) ==
    SignalDef_from(row, log_parse_can_id(row.can_id),
                   IntFloatOr(row.start_bit, 0), IntFloatOr(row.bit_length, 1),
                   FloatOr(row.offset, 0), FloatOr(row.scale, 1),
                   IntFloatOr(row.dlc, 8))

\* by_id.setdefault(can_id, []).append(x)
AppendById(acc, can_id, x) ==
    IF can_id \in DOMAIN acc
    THEN [acc EXCEPT ![can_id] = Append(@, x)]
    ELSE [k \in DOMAIN acc \cup {can_id} |-> IF k = can_id THEN <<x>> ELSE acc[k]]

EmptyMap == [k \in {} |-> <<>>]

\* the row filter of load_signals
log_row_skipped(row) == ~Truthy(row.name) \/ ~Truthy(row.can_id)

RECURSIVE load_signals_from(_, _)
load_signals_add(rs, acc, sd) ==
    IF ~sd.ok THEN Raise
    ELSE load_signals_from(rs, AppendById(acc, sd.val.can_id, sd.val))

load_signals_from(rs, acc) ==
    IF rs = <<>> THEN Ok(acc)
    ELSE IF log_row_skipped(Head(rs)) THEN load_signals_from(Tail(rs), acc)
    ELSE load_signals_add(Tail(rs), acc, SignalDefOf(Head(rs)))

load_signals(rs) == load_signals_from(rs, EmptyMap)

\* --------------------------------------------- log decoder: main loop

\* mutant of the normalisation: the padding goes in front
normalize8_pad_left(data) ==
    IF Len(data) < 8 THEN [i \in 1..(8 - Len(data)) |-> 0] \o data ELSE SubSeq(data, 1, 8)

\* data + b"\x00" * (8 - len(data)), or data[:8]
normalize8(data) ==
    IF Len(data) < 8 THEN data \o [i \in 1..(8 - Len(data)) |-> 0] ELSE SubSeq(data, 1, 8)

\* f"{n:X}"
RECURSIVE FormatHexUpper(_)
FormatHexUpper(n) == IF n < 16 THEN <<UpperHexChars[n + 1]>>
                     ELSE FormatHexUpper(n \div 16) \o <<UpperHexChars[(n % 16) + 1]>>

\* f"0x{cid:X}"
FormatCanId(cid) == <<"0", "x">> \o FormatHexUpper(cid)

\* get_big_endian(...) if sd.big_endian else get_little_endian(...)
extract_raw(sd, data) ==
    BitsToNat(IF sd.big_endian
              THEN get_big_endian(data, sd.start_bit, sd.bit_length)
              ELSE get_little_endian(data, sd.start_bit, sd.bit_length))

\* if sd.signed: raw = to_signed(raw, sd.bit_length)
decode_raw(sd, data) ==
    IF sd.signed THEN to_signed(extract_raw(sd, data), sd.bit_length) ELSE extract_raw(sd, data)

\* the row written for one signal: value = raw * scale + offset, in tenths
decoded_row_of(ts, cid, sd, raw) ==
    [timestamp |-> IF ts = None THEN <<>> ELSE ts,
     can_id    |-> FormatCanId(cid),
     signal    |-> sd.name,
     value     |-> raw * sd.scale + sd.offset,
     units     |-> sd.units,
     raw       |-> raw]

decoded_row(ts, cid, sd, data) == decoded_row_of(ts, cid, sd, decode_raw(sd, data))

decoded_rows_of(ts, cid, sigs, data) ==
    [i \in DOMAIN sigs |-> decoded_row(ts, cid, sigs[i], data)]

\* a big-endian signal reaching past byte 7 raises IndexError
frame_decodable(sigs, data) ==
    \A i \in DOMAIN sigs :
        sigs[i].big_endian => big_endian_in_range(data, sigs[i].start_bit, sigs[i].bit_length)

\* signals_by_id.get(cid), with None as the empty list
signals_get(by, cid) == IF cid \in DOMAIN by THEN by[cid] ELSE <<>>

\* ------------------------------------------------------------- inputs

\* one row of the signal table as csv.DictReader yields it
Row(name, can_id, units, start_bit, bit_length, offset, scale, signedness, endian, dlc) ==
    [name |-> name, can_id |-> can_id, units |-> units, start_bit |-> start_bit,
     bit_length |-> bit_length, offset |-> offset, scale |-> scale,
     min |-> <<>>, max |-> <<>>,
     signedness |-> signedness, endian |-> endian, dlc |-> dlc]

\* the definition of the documented scenario, and signals in the higher bytes
TableA == <<
    Row(<<"V">>, <<"0","x","4","D","1">>, <<"V">>,
        <<"0">>, <<"1","6">>, <<"0">>, <<"0",".","1">>,
        <<"u","n","s","i","g","n","e","d">>, <<"i","n","t","e","l">>, <<"8">>),
    Row(<<"H">>, <<"1","2","3","3">>, <<"V">>,
        <<"1","6">>, <<"8">>, <<"0">>, <<"1">>,
        <<"s","i","g","n","e","d">>, <<"b","i","g">>, <<>>),
    Row(<<"L">>, <<"1","2","3","3">>, <<"V">>,
        <<"2","8">>, <<"1","2">>, <<"0">>, <<>>,
        <<"s">>, <<>>, <<"8">>),
    Row(<<"M">>, <<"0","x","4","d","1">>, <<"V">>,
        <<"4","0">>, <<"2","4">>, <<"0">>, <<"1">>,
        <<>>, <<"m","o","t","o","r","o","l","a">>, <<>>) >>

\* rows without a name or a can_id among usable rows
TableB == <<
    Row(<<>>, <<"0","x","4","D","1">>, <<"V">>,
        <<"0">>, <<"8">>, <<"0">>, <<"1">>,
        <<>>, <<>>, <<>>),
    Row(<<"X">>, <<>>, <<"V">>,
        <<"0">>, <<"8">>, <<"0">>, <<"1">>,
        <<>>, <<>>, <<>>),
    Row(<<"B","0">>, <<"0","x","1","0">>, <<"V">>,
        <<"0">>, <<"8">>, <<"0">>, <<"1">>,
        <<" ","S","i","g","n","e","d"," ">>, <<"m","s","b">>, <<>>),
    Row(<<"W">>, <<"1","6">>, <<"V">>,
        <<"8">>, <<"1","6">>, <<"0",".","5">>, <<"2">>,
        <<>>, <<>>, <<"4">>),
    Row(<<"N">>, None, <<"V">>,
        <<"8">>, <<"1","6">>, <<"0">>, <<"2">>,
        <<>>, <<>>, <<"4">>),
    Row(<<"Q">>, <<"0","x","4","D","1">>, <<"V">>,
        <<"1","6">>, <<"1","6">>, <<"0">>, <<"1">>,
        <<"y","e","s">>, <<"b","e">>, <<>>),
    Row(<<"R">>, <<"0","x","4","D","1">>, <<"V">>,
        <<"5","6">>, <<"8">>, <<"0">>, <<"1">>,
        <<"t","r","u","e">>, <<>>, <<>>) >>

\* a can_id that is no number
TableC == <<
    Row(<<"V">>, <<"0","x","4","D","1">>, <<"V">>,
        <<"0">>, <<"1","6">>, <<"0">>, <<"0",".","1">>,
        <<"u","n","s","i","g","n","e","d">>, <<"i","n","t","e","l">>, <<"8">>),
    Row(<<"Z">>, <<"z","z">>, <<"V">>,
        <<"0">>, <<"8">>, <<"0">>, <<"1">>,
        <<>>, <<>>, <<>>) >>

LogTables == {TableA, TableB, TableC}

RECURSIVE DecText(_)
DecText(n) == IF n < 10 THEN <<DigitChars[n + 1]>>
              ELSE DecText(n \div 10) \o <<DigitChars[(n % 10) + 1]>>

\* two upper-case hex digits of a byte
Hex2(b) == <<UpperHexChars[(b \div 16) + 1], UpperHexChars[(b % 16) + 1]>>

RECURSIVE HexData(_)
HexData(bytes) == IF bytes = <<>> THEN <<>> ELSE Hex2(Head(bytes)) \o HexData(Tail(bytes))

RECURSIVE CommaBytes(_)
CommaBytes(bytes) == IF bytes = <<>> THEN <<>>
                     ELSE <<",">> \o Hex2(Head(bytes)) \o CommaBytes(Tail(bytes))

T_ts == <<"1",".","0","0","0","0","0","0">>

\* "(1.000000) can0 ID#DATA"
CandumpLine(id, bytes) ==
    <<"(">> \o T_ts \o <<")"," ","c","a","n","0"," ">> \o FormatHexUpper(id) \o <<"#">> \o HexData(bytes)

\* "ID#DATA"
PlainLine(id, bytes) == FormatHexUpper(id) \o <<"#">> \o HexData(bytes)

\* "ts,id,b0,...": decimal id, hex bytes
CsvTsLine(id, bytes) == T_ts \o <<",">> \o DecText(id) \o CommaBytes(bytes)

\* "id,b0,...": no timestamp field
CsvNoTsLine(id, bytes) == DecText(id) \o CommaBytes(bytes)

Frame18 == <<1, 2, 3, 4, 5, 6, 7, 8>>
FrameHi == <<255, 128, 127, 171, 90, 255, 0, 129>>

LogIds    == {1233, 16}
LogFrames == {Frame18, FrameHi}

FullLines ==
    UNION { {CandumpLine(id, f), PlainLine(id, f), CsvTsLine(id, f), CsvNoTsLine(id, f)} :
            <<id, f>> \in LogIds \X LogFrames }

\* ID#DATA lines carrying fewer than 8 bytes, or an odd number of digits
ShortLines ==
    { PlainLine(1233, SubSeq(FrameHi, 1, n)) : n \in {0, 2, 5} } \cup
    { PlainLine(1233, <<1, 2>>), <<"4","D","1","#","F","F","8">> }

OtherLines == {
    <<>>,
    <<"#"," ","4","D","1","#","0","1","0","2">>,
    <<"h","e","l","l","o"," ","w","o","r","l","d">>,
    <<"0",",","1","2","3","3",",","0","1",",","0","2">>,
    <<"0",",","1","2","3","3",",","0","1",",","0","2",",","0","3",",","0","4",",","0","5",",","0","6",",","0","7",",","z","z">>,
    <<"0",",","z","z",",","0","1",",","0","2",",","0","3",",","0","4",",","0","5",",","0","6",",","0","7",",","0","8">>,
    <<"7",","," ","0","x","1","0"," ",",","F","F"," ","8","0"," ","7","F"," ","0","0"," ","A","B"," ","0","1"," ","0","2"," ","0","3">>,
    <<"c","a","n","0"," ","0","1","0","#","F","F","8","0","7","F">>,
    <<"5",",","4","D","1",",","F","F",",","F","F",",","F","F",",","F","F",",","F","F",",","F","F",",","F","F",",","F","F",",","F","F">>,
    <<"(","2",".","5",")"," ","v","c","a","n","0"," ","9","9","9","#","1","1","2","2","3","3","4","4","5","5","6","6","7","7","8","8","A","A">> }

LogLines == FullLines \cup ShortLines \cup OtherLines

\* the most lines a log file of the model holds
MaxLogLines == 2

\* -------------------------------------------------------------- state

VARIABLES
    pc,              \* where the running tool stands
    csv_rows,        \* the signal table on disk, one record per data row
    n_lines,         \* log decoder: the number of lines of the log file
    line_no,         \* log decoder: lines consumed by the for loop
    line,            \* log decoder: the line of the current iteration
    parsed,          \* log decoder: parse_frame_line's result for it
    data8,           \* log decoder: the frame handed to the codec
    signals_by_id,   \* log decoder: the loaded signal table
    total_frames, skipped_frames, decoded_rows,
    out_rows,        \* log decoder: the rows written to the output csv
    printed,         \* log decoder: the counts printed at the end
    rows,            \* DBC serializer, frame decoder: the rows kept
    row_no,          \* DBC serializer, frame decoder: rows consumed by the loop
    by_id,           \* DBC serializer: can_id -> rows
    msg_no,          \* DBC serializer: messages emitted
    lines,           \* DBC serializer: the lines built; frame decoder: printed
    dbc_file,        \* DBC serializer: the lines of the written file
    argv,            \* frame decoder: the command line's can_id and bytes
    frame_can_id,    \* frame decoder: can_id parsed from the command line
    frame_data,      \* frame decoder: data, the 8 bytes parsed from the command line
    call             \* codec: the last call, its arguments and its result

logVars == <<n_lines, line_no, line, parsed, data8, signals_by_id,
             total_frames, skipped_frames, decoded_rows, out_rows, printed>>

tableVars == <<rows, row_no, by_id, msg_no, lines, dbc_file>>

frameVars == <<argv, frame_can_id, frame_data>>

vars == <<pc, csv_rows, logVars, tableVars, frameVars, call>>

NoCounts == [frames_read |-> -1, matching |-> -1, rows_written |-> -1]

NoCall == [fn |-> "none"]

LogIdle ==
    /\ n_lines = 0 /\ line_no = 0 /\ line = <<>> /\ parsed = NoFrame /\ data8 = <<>>
    /\ signals_by_id = EmptyMap
    /\ total_frames = 0 /\ skipped_frames = 0 /\ decoded_rows = 0
    /\ out_rows = <<>> /\ printed = NoCounts

NoArgs == [can_id |-> <<>>, data |-> <<>>]

FrameIdle == argv = NoArgs /\ frame_can_id = -1 /\ frame_data = <<>>

TableIdle ==
    /\ rows = <<>> /\ row_no = 0 /\ by_id = EmptyMap /\ msg_no = 0
    /\ lines = <<>> /\ dbc_file = <<>>

\* ---------------------------------------------------------- log decoder

LogInit ==
    /\ pc = "load_signals"
    /\ csv_rows \in LogTables
    /\ n_lines \in 0..MaxLogLines
    /\ line_no = 0 /\ line = <<>> /\ parsed = NoFrame /\ data8 = <<>>
    /\ signals_by_id = EmptyMap
    /\ total_frames = 0 /\ skipped_frames = 0 /\ decoded_rows = 0
    /\ out_rows = <<>> /\ printed = NoCounts
    /\ TableIdle /\ FrameIdle /\ call = NoCall

LoadSignals_of(r) ==
    IF r.ok
    THEN pc' = "read_log" /\ signals_by_id' = r.val
    ELSE pc' = "crashed" /\ UNCHANGED signals_by_id

\* signals_by_id = load_signals(signals_csv); an exception ends the run
LoadSignals ==
    /\ pc = "load_signals"
    /\ LoadSignals_of(load_signals(csv_rows))
    /\ UNCHANGED <<csv_rows, n_lines, line_no, line, parsed, data8,
                   total_frames, skipped_frames, decoded_rows, out_rows, printed,
                   tableVars, call, frameVars>>

\* the body of the loop once the line is parsed: ts, cid, data = parsed
ReadLine_of(p, d, sigs) ==
    /\ parsed' = p
    /\ CASE p.kind = "raise" ->
              /\ pc' = "crashed"
              /\ UNCHANGED <<data8, total_frames, skipped_frames, decoded_rows, out_rows>>
         [] p.kind = "none" ->
              /\ pc' = pc
              /\ UNCHANGED <<data8, total_frames, skipped_frames, decoded_rows, out_rows>>
         [] p.kind = "frame" /\ sigs = <<>> ->
              /\ pc' = pc
              /\ data8' = d
              /\ total_frames' = total_frames + 1
              /\ skipped_frames' = skipped_frames + 1
              /\ UNCHANGED <<decoded_rows, out_rows>>
         [] p.kind = "frame" /\ sigs # <<>> /\ ~frame_decodable(sigs, d) ->
              /\ pc' = "crashed"
              /\ data8' = d
              /\ total_frames' = total_frames + 1
              /\ UNCHANGED <<skipped_frames, decoded_rows, out_rows>>
         [] p.kind = "frame" /\ sigs # <<>> /\ frame_decodable(sigs, d) ->
              /\ pc' = pc
              /\ data8' = d
              /\ total_frames' = total_frames + 1
              /\ out_rows' = out_rows \o decoded_rows_of(p.ts, p.cid, sigs, d)
              /\ decoded_rows' = decoded_rows + Len(sigs)
              /\ UNCHANGED skipped_frames

ReadLine_parsed(p) == ReadLine_of(p, normalize8(p.data), signals_get(signals_by_id, p.cid))

\* one iteration of "for line in f_in"; nothing catches what parse_frame_line
\* or the codec raises
ReadLine(l) ==
    /\ pc = "read_log"
    /\ line_no < n_lines
    /\ line_no' = line_no + 1
    /\ line' = l
    /\ ReadLine_parsed(parse_frame_line(l))
    /\ UNCHANGED <<csv_rows, n_lines, signals_by_id, printed, tableVars, call, frameVars>>

\* the prints after the loop
PrintCounts ==
    /\ pc = "read_log"
    /\ line_no = n_lines
    /\ pc' = "done"
    /\ printed' = [frames_read  |-> total_frames,
                   matching     |-> total_frames - skipped_frames,
                   rows_written |-> decoded_rows]
    /\ UNCHANGED <<csv_rows, n_lines, line_no, line, parsed, data8, signals_by_id,
                   total_frames, skipped_frames, decoded_rows, out_rows, tableVars, call, frameVars>>

Init == LogInit

Next ==
    \/ LoadSignals
    \/ \E l \in LogLines : ReadLine(l)
    \/ PrintCounts

Spec == Init /\ [][Next]_vars

\* ------------------------------------------------ log decoder: claims

\* the rows the last iteration wrote, when it wrote n of them
LastRows(n) == SubSeq(out_rows, Len(out_rows) - n + 1, Len(out_rows))

\* the signals of the frame of the current iteration
CurrentSigs == signals_get(signals_by_id, parsed.cid)

\* the row of the documented scenario: signal V of 0x4D1, raw 513, value 51.3
ScenarioRow ==
    [timestamp |-> T_ts, can_id |-> <<"0","x","4","D","1">>, signal |-> <<"V">>,
     value |-> 513, units |-> <<"V">>, raw |-> 513]

\* C1 as stated: a comma-delimited line made of a decimal id followed by 8 hex
\* byte fields ("1233,01,02,03,04,05,06,07,08") is parsed to the frame
\* (id, 8 bytes) that the ID#DATA line with the same id and bytes gives.
C1_NoTimestampLineYieldsFrame ==
    \A id \in LogIds, f \in LogFrames :
        (line_no > 0 /\ line = CsvNoTsLine(id, f))
            => (parsed.kind = "frame" /\ parsed.cid = id /\ parsed.data = f)

\* C1 as amended: a comma-delimited line made of a timestamp field, a decimal id
\* and 8 hex byte fields is parsed to the same frame (timestamp, id, 8 bytes) as
\* the candump line with that timestamp, id and bytes, and to the id and bytes
\* of the plain ID#DATA line; with the scenario's definition both
\* "1.000000,1233,01,...,08" and "(1.000000) can0 4D1#0102030405060708" write
\* the row can_id 0x4D1, raw 513, value 51.3.
C1_CsvLineSameFrameAsIdData ==
    \A id \in LogIds, f \in LogFrames :
        /\ (line_no > 0 /\ line \in {CsvTsLine(id, f), CandumpLine(id, f)})
               => parsed = Frame(T_ts, id, f)
        /\ (line_no > 0 /\ line = PlainLine(id, f))
               => (parsed.kind = "frame" /\ parsed.cid = id /\ parsed.data = f)
        /\ (/\ line_no > 0 /\ csv_rows = TableA /\ id = 1233 /\ f = Frame18
            /\ line \in {CsvTsLine(id, f), CandumpLine(id, f)})
               => (/\ pc # "crashed"
                   /\ Len(out_rows) >= Len(CurrentSigs)
                   /\ LastRows(Len(CurrentSigs))[1] = ScenarioRow)

\* C1 witness: the comma-delimited scenario line has been decoded
C1_Witness ==
    /\ pc = "read_log" /\ line_no > 0 /\ csv_rows = TableA
    /\ line = CsvTsLine(1233, Frame18)
    /\ decoded_rows > 0

\* C2: no log line aborts the run: every line read is turned into a frame or
\* discarded, and the loop goes on to the later lines and the final counts.
C2_NoLineAbortsRun ==
    line_no > 0 => (parsed.kind \in {"frame", "none"} /\ pc # "crashed")

\* C7: an ID#DATA line with n < 8 data bytes hands the codec 8 bytes, the n
\* bytes of the line then zeros, and every signal of its id whose bit field lies
\* in bytes n..7 is written with raw = 0, whatever its byte order and signedness.
C7_ShortFrameZeroPadded ==
    (line_no > 0 /\ parsed.kind = "frame" /\ Len(parsed.data) < 8 /\ pc # "crashed")
        => /\ Len(data8) = 8
           /\ SubSeq(data8, 1, Len(parsed.data)) = parsed.data
           /\ \A i \in (Len(parsed.data) + 1)..8 : data8[i] = 0
           /\ CurrentSigs # <<>> =>
                  /\ Len(out_rows) >= Len(CurrentSigs)
                  /\ \A k \in DOMAIN CurrentSigs :
                         (/\ CurrentSigs[k].start_bit >= 8 * Len(parsed.data)
                          /\ CurrentSigs[k].start_bit + CurrentSigs[k].bit_length <= 64)
                             => LastRows(Len(CurrentSigs))[k].raw = 0

\* C7 witness: "4D1#0102" decoded with big- and little-endian, signed and
\* unsigned signals placed beyond byte 2
C7_Witness ==
    /\ pc = "read_log" /\ line_no > 0 /\ csv_rows = TableA
    /\ line = <<"4","D","1","#","0","1","0","2">>
    /\ data8 = <<1, 2, 0, 0, 0, 0, 0, 0>>
    /\ Len(out_rows) >= 4
    /\ \E k \in 2..4 : CurrentSigs[k].big_endian /\ CurrentSigs[k].signed
                       /\ LastRows(4)[k].raw = 0
    /\ \E k \in 2..4 : ~CurrentSigs[k].big_endian /\ LastRows(4)[k].raw = 0

\* ------------------------------------------------------ DBC serializer

DEFAULT_DLC == 8
DEFAULT_SENDER == "VOSP"
DEFAULT_RECEIVER == "Vector__XXX"

\* re.sub(r"[^A-Za-z0-9_]", "_", s)
SubNonWord(s) == [i \in DOMAIN s |-> IF IsWordChar(s[i]) THEN s[i] ELSE "_"]

sanitize_name_of(s) ==
    IF s = <<>> THEN <<"S", "I", "G">>
    ELSE IF IsDigit(s[1]) THEN <<"_">> \o s
    ELSE s

sanitize_name(s) == sanitize_name_of(SubNonWord(Strip(s)))

\* csv_to_dbc.parse_can_id after s = s.strip()
dbc_parse_can_id_of(s) ==
    IF StartsWith(Lower(s), <<"0", "x">>) THEN IntBase16(s) ELSE IntFloat(s)

\* csv_to_dbc.parse_can_id; None has no strip()
dbc_parse_can_id(s) == IF s = None THEN Raise ELSE dbc_parse_can_id_of(Strip(s))

\* s = (s or "").strip()
OrEmptyStripped(s) == IF s = None THEN <<>> ELSE Strip(s)

\* mutant of parse_int: a blank field gives the module default, not the one passed
parse_int_fixed_default(s, default) ==
    IF OrEmptyStripped(s) = <<>> THEN Ok(DEFAULT_DLC) ELSE IntFloat(OrEmptyStripped(s))

parse_int(s, default) ==
    IF OrEmptyStripped(s) = <<>> THEN Ok(default) ELSE IntFloat(OrEmptyStripped(s))

\* parse_float, in tenths
parse_float(s, default) ==
    IF OrEmptyStripped(s) = <<>> THEN Ok(10 * default) ELSE FloatTenths(OrEmptyStripped(s))

is_signed(s) == Lower(OrEmptyStripped(s)) \in {T_signed, T_s, T_1, T_true, T_yes}

is_big_endian(s) ==
    Lower(OrEmptyStripped(s)) \in {T_motorola, T_big, T_be, T_msb, T_1, T_true, T_yes}

\* rows = [row for row in r if row.get("name")]
RECURSIVE rows_with_name(_)
rows_with_name(rs) ==
    IF rs = <<>> THEN <<>>
    ELSE IF Truthy(Head(rs).name) THEN <<Head(rs)>> \o rows_with_name(Tail(rs))
    ELSE rows_with_name(Tail(rs))

\* the least key
MinOf(S) == CHOOSE x \in S : \A y \in S : x <= y

\* mutant of sorted(): descending
RECURSIVE sorted_descending(_)
sorted_descending(S) ==
    IF S = {} THEN <<>>
    ELSE sorted_descending(S \ {MinOf(S)}) \o <<MinOf(S)>>

\* sorted(by_id.keys())
RECURSIVE sorted(_)
sorted(S) == IF S = {} THEN <<>> ELSE <<MinOf(S)>> \o sorted(S \ {MinOf(S)})

\* for s in sigs: dlc = parse_int(s.get("dlc", ""), dlc)
RECURSIVE message_dlc(_, _)
message_dlc_step(sigs, dlc) == IF dlc.ok THEN message_dlc(sigs, dlc.val) ELSE Raise

message_dlc(sigs, dlc) ==
    IF sigs = <<>> THEN Ok(dlc)
    ELSE message_dlc_step(Tail(sigs), parse_int(Head(sigs).dlc, dlc))

TextLine(t) == [kind |-> "text", text |-> t]

\* f"BO_ {can_id} {msg_name}: {dlc} {DEFAULT_SENDER}"
BoLine(can_id, dlc) ==
    [kind |-> "BO_", can_id |-> can_id,
     msg_name |-> <<"M", "S", "G", "_">> \o DecText(can_id),
     dlc |-> dlc, sender |-> DEFAULT_SENDER]

\* the SG_ line of one signal; a numeric field that does not parse, or a
\* missing (None) name, raises
SgLine_from(s, start_bit, bit_len, offset, scale, vmin, vmax) ==
    IF /\ s.name # None
       /\ start_bit.ok /\ bit_len.ok /\ offset.ok /\ scale.ok /\ vmin.ok /\ vmax.ok
    THEN Ok([kind       |-> "SG_",
             name       |-> sanitize_name(s.name),
             start_bit  |-> start_bit.val,
             bit_len    |-> bit_len.val,
             endian_num |-> IF is_big_endian(s.endian) THEN 0 ELSE 1,
             sign_char  |-> IF is_signed(s.signedness) THEN "-" ELSE "+",
             scale      |-> scale.val,
             offset     |-> offset.val,
             vmin       |-> vmin.val,
             vmax       |-> vmax.val,
             units      |-> OrEmptyStripped(s.units),
             receiver   |-> DEFAULT_RECEIVER])
    ELSE Raise

SgLine(s) ==
    SgLine_from(s, parse_int(s.start_bit, 0), parse_int(s.bit_length, 1),
                parse_float(s.offset, 0), parse_float(s.scale, 1),
                parse_float(s.min, 0), parse_float(s.max, 0))

SgLines(sigs) == [i \in DOMAIN sigs |-> SgLine(sigs[i])]

\* the lines of one message block: BO_, its SG_ lines, a blank line
message_block_of(can_id, dlc, sgs) ==
    IF dlc.ok /\ \A i \in DOMAIN sgs : sgs[i].ok
    THEN Ok(<<BoLine(can_id, dlc.val)>> \o [i \in DOMAIN sgs |-> sgs[i].val] \o <<TextLine("")>>)
    ELSE Raise

message_block(can_id, sigs) ==
    message_block_of(can_id, message_dlc(sigs, DEFAULT_DLC), SgLines(sigs))

\* the fixed head of the document
Preamble == <<
    TextLine("VERSION \"\""), TextLine(""),
    TextLine("NS_ :"),
    TextLine("\tNS_DESC_"), TextLine("\tCM_"), TextLine("\tBA_DEF_"), TextLine("\tBA_"),
    TextLine("\tVAL_"), TextLine("\tCAT_DEF_"), TextLine("\tCAT_"), TextLine("\tFILTER"),
    TextLine("\tBA_DEF_DEF_"), TextLine("\tEV_DATA_"), TextLine("\tENVVAR_DATA_"),
    TextLine("\tSGTYPE_"), TextLine("\tSGTYPE_VAL_"), TextLine("\tBA_DEF_SGTYPE_"),
    TextLine("\tBA_SGTYPE_"), TextLine("\tSIG_TYPE_REF_"), TextLine("\tVAL_TABLE_"),
    TextLine("\tSIG_GROUP_"), TextLine("\tSIG_VALTYPE_"), TextLine("\tSIGTYPE_VALTYPE_"),
    TextLine("\tBO_TX_BU_"), TextLine("\tBA_DEF_REL_"), TextLine("\tBA_REL_"),
    TextLine("\tBA_DEF_DEF_REL_"), TextLine("\tBU_SG_REL_"), TextLine("\tBU_EV_REL_"),
    TextLine("\tBU_BO_REL_"), TextLine("\tSG_MUL_VAL_"), TextLine(""),
    TextLine("BS_:"), TextLine(""),
    TextLine("BU_: VOSP"), TextLine("") >>

\* "\n".join(lines).rstrip() + "\n": the lines without the trailing blank ones
RECURSIVE written_lines(_)
written_lines(ls) ==
    IF ls # <<>> /\ ls[Len(ls)] = TextLine("") THEN written_lines(SubSeq(ls, 1, Len(ls) - 1))
    ELSE ls

\* the rows a table of the model is made of
DbcRowA == Row(<<"A">>, <<"0","x","4","D","1">>, <<"V">>,
        <<"0">>, <<"1","6">>, <<"0">>, <<"0",".","1">>,
        <<"u","n","s","i","g","n","e","d">>, <<"i","n","t","e","l">>, <<"4">>)
DbcRowB == Row(<<"B">>, <<"1","2","3","3">>, <<"V">>,
        <<"1","6">>, <<"8">>, <<"0">>, <<"1">>,
        <<"s","i","g","n","e","d">>, <<"b","i","g">>, <<"8">>)
DbcRowC == Row(<<"C">>, <<"1","2","3","3">>, <<"V">>,
        <<"2","8">>, <<"1","2">>, <<"0">>, <<>>,
        <<"s">>, <<>>, <<>>)
DbcRowD == Row(<<"D">>, <<"1","6">>, <<"V">>,
        <<"0">>, <<"8">>, <<"0">>, <<"1">>,
        <<"S","i","g","n","e","d">>, <<"m","o","t","o","r","o","l","a">>, <<"2">>)
DbcRowE == Row(<<"E">>, <<>>, <<"V">>,
        <<"0">>, <<"8">>, <<"0">>, <<"1">>,
        <<>>, <<>>, <<>>)
DbcRowF == Row(<<>>, <<"0","x","4","D","1">>, <<"V">>,
        <<"0">>, <<"8">>, <<"0">>, <<"1">>,
        <<>>, <<>>, <<"6">>)
DbcRowG == Row(<<"3","-","P","h","a","s","e"," ","V">>, <<"0","x","1","0">>, <<"V">>,
        <<"8">>, <<"8">>, <<"0">>, <<"2">>,
        <<>>, <<>>, <<" "," ">>)
DbcRowH == Row(<<"H">>, None, <<"V">>,
        <<"8">>, <<"8">>, <<"0">>, <<"2">>,
        <<>>, <<>>, <<"4">>)
DbcRowI == Row(<<"I">>, <<"1","6">>, <<"V">>,
        <<"8">>, <<"8">>, <<"0">>, <<"2">>,
        <<>>, <<>>, <<"x">>)

DbcRowPool == {DbcRowA, DbcRowB, DbcRowC, DbcRowD, DbcRowE, DbcRowF, DbcRowG, DbcRowH, DbcRowI}

\* the most rows a signal table given to the DBC serializer holds
MaxDbcRows == 3

DbcTables == UNION { [1..n -> DbcRowPool] : n \in 0..MaxDbcRows }

DbcInit ==
    /\ pc = "dbc_load"
    /\ csv_rows \in DbcTables
    /\ LogIdle /\ TableIdle /\ FrameIdle /\ call = NoCall

\* lines 73-79: the rows with a name are kept
DbcLoadRows ==
    /\ pc = "dbc_load"
    /\ rows' = rows_with_name(csv_rows)
    /\ pc' = "dbc_group"
    /\ UNCHANGED <<csv_rows, logVars, row_no, by_id, msg_no, lines, dbc_file, call, frameVars>>

DbcGroupRow_of(row, can_id) ==
    IF can_id.ok
    THEN /\ by_id' = AppendById(by_id, can_id.val, row)
         /\ row_no' = row_no + 1
         /\ pc' = pc
    ELSE /\ pc' = "crashed"
         /\ UNCHANGED <<by_id, row_no>>

\* lines 83-85, one row: by_id[parse_can_id(row["can_id"])].append(row)
DbcGroupRow ==
    /\ pc = "dbc_group"
    /\ row_no < Len(rows)
    /\ DbcGroupRow_of(rows[row_no + 1], dbc_parse_can_id(rows[row_no + 1].can_id))
    /\ UNCHANGED <<csv_rows, logVars, rows, msg_no, lines, dbc_file, call, frameVars>>

\* lines 88-124: the preamble
DbcPreamble ==
    /\ pc = "dbc_group"
    /\ row_no = Len(rows)
    /\ lines' = Preamble
    /\ pc' = "dbc_emit"
    /\ UNCHANGED <<csv_rows, logVars, rows, row_no, by_id, msg_no, dbc_file, call, frameVars>>

DbcEmitMessage_of(block) ==
    IF block.ok
    THEN /\ lines' = lines \o block.val
         /\ msg_no' = msg_no + 1
         /\ pc' = pc
    ELSE /\ pc' = "crashed"
         /\ UNCHANGED <<lines, msg_no>>

DbcEmitMessage_id(can_id) == DbcEmitMessage_of(message_block(can_id, by_id[can_id]))

\* lines 127-162, one message: for can_id in sorted(by_id.keys())
DbcEmitMessage ==
    /\ pc = "dbc_emit"
    /\ msg_no < Cardinality(DOMAIN by_id)
    /\ DbcEmitMessage_id(sorted(DOMAIN by_id)[msg_no + 1])
    /\ UNCHANGED <<csv_rows, logVars, rows, row_no, by_id, dbc_file, call, frameVars>>

\* lines 164-167: the file is written
DbcWrite ==
    /\ pc = "dbc_emit"
    /\ msg_no = Cardinality(DOMAIN by_id)
    /\ dbc_file' = written_lines(lines)
    /\ pc' = "dbc_done"
    /\ UNCHANGED <<csv_rows, logVars, rows, row_no, by_id, msg_no, lines, call, frameVars>>

DbcNext ==
    \/ DbcLoadRows
    \/ DbcGroupRow
    \/ DbcPreamble
    \/ DbcEmitMessage
    \/ DbcWrite

SpecDbc == DbcInit /\ [][DbcNext]_vars

\* --------------------------------------------- DBC serializer: claims

HasName(r) == Truthy(r.name)

\* the input rows that carry a name, in input order
KeptRows == SelectSeq(csv_rows, HasName)

\* the number a row's can_id text stands for
IdOfRow(r) == dbc_parse_can_id(r.can_id).val

\* the kept rows whose can_id is the number c, in input order
RECURSIVE RowsOfIdIn(_, _)
RowsOfIdIn(rs, c) ==
    IF rs = <<>> THEN <<>>
    ELSE IF IdOfRow(Head(rs)) = c THEN <<Head(rs)>> \o RowsOfIdIn(Tail(rs), c)
    ELSE RowsOfIdIn(Tail(rs), c)

RowsOfId(c) == RowsOfIdIn(KeptRows, c)

\* the places of the BO_ and SG_ lines of the written file
BoPlaces == { i \in DOMAIN dbc_file : dbc_file[i].kind = "BO_" }
SgPlaces == { i \in DOMAIN dbc_file : dbc_file[i].kind = "SG_" }

\* the number of SG_ lines that follow the BO_ line at place p
BlockSize(p) ==
    CHOOSE n \in 0..Len(dbc_file) :
        /\ \A k \in 1..n : p + k \in SgPlaces
        /\ p + n + 1 \notin SgPlaces

\* C8: every distinct numeric can_id has exactly one BO_ block, the blocks are
\* in strictly ascending can_id order, and a block's SG_ lines are the kept
\* rows of that id in input order, one line per kept row.
C8_OneBlockPerIdAscending ==
    pc = "dbc_done" =>
        /\ \A p \in BoPlaces, r \in BoPlaces :
               p < r => dbc_file[p].can_id < dbc_file[r].can_id
        /\ { dbc_file[p].can_id : p \in BoPlaces }
               = { IdOfRow(KeptRows[i]) : i \in DOMAIN KeptRows }
        /\ \A p \in BoPlaces :
               [k \in 1..BlockSize(p) |-> dbc_file[p + k].name]
                   = [k \in DOMAIN RowsOfId(dbc_file[p].can_id) |->
                          sanitize_name(RowsOfId(dbc_file[p].can_id)[k].name)]
        /\ Cardinality(SgPlaces) = Len(KeptRows)

\* C8 witness: "0x4D1" and "1233" share a block that follows the block of 16
C8_Witness ==
    /\ pc = "dbc_done"
    /\ csv_rows = <<DbcRowA, DbcRowD, DbcRowB>>
    /\ Cardinality(BoPlaces) = 2
    /\ \E p \in BoPlaces : dbc_file[p].can_id = 1233 /\ BlockSize(p) = 2

\* the dlc a row states; a blank one states the default
DlcOfRow(r) ==
    IF OrEmptyStripped(r.dlc) = <<>> THEN DEFAULT_DLC ELSE IntFloat(r.dlc).val

\* the last stated dlc that differs from the default, else the default
RECURSIVE LastNonDefaultDlc(_)
LastNonDefaultDlc(rs) ==
    IF rs = <<>> THEN DEFAULT_DLC
    ELSE IF DlcOfRow(rs[Len(rs)]) # DEFAULT_DLC THEN DlcOfRow(rs[Len(rs)])
    ELSE LastNonDefaultDlc(SubSeq(rs, 1, Len(rs) - 1))

\* the last dlc field that is not blank, else the default
RECURSIVE LastNonBlankDlc(_)
LastNonBlankDlc(rs) ==
    IF rs = <<>> THEN DEFAULT_DLC
    ELSE IF OrEmptyStripped(rs[Len(rs)].dlc) # <<>> THEN IntFloat(rs[Len(rs)].dlc).val
    ELSE LastNonBlankDlc(SubSeq(rs, 1, Len(rs) - 1))

\* C9 as stated: the DLC of a BO_ line is the last non-default DLC value among
\* the id's signals in input order, and 8 only when none carries a non-default
\* DLC (dlc 4 then dlc 8 gives 4).
C9_DlcIsLastNonDefault ==
    pc = "dbc_done" =>
        \A p \in BoPlaces :
            dbc_file[p].dlc = LastNonDefaultDlc(RowsOfId(dbc_file[p].can_id))

\* C9 as amended: the DLC of a BO_ line is the value of the last non-blank dlc
\* field among the id's signals in input order, and the default 8 only when
\* every dlc field of the id is blank (dlc 4 then dlc 8 gives 8, dlc 4 then
\* blank gives 4).
C9_DlcIsLastNonBlank ==
    pc = "dbc_done" =>
        \A p \in BoPlaces :
            dbc_file[p].dlc = LastNonBlankDlc(RowsOfId(dbc_file[p].can_id))

\* C9 witness: one id with dlc 4, then 8, then blank
C9_Witness ==
    /\ pc = "dbc_done"
    /\ csv_rows = <<DbcRowA, DbcRowB, DbcRowC>>
    /\ \E p \in BoPlaces : dbc_file[p].can_id = 1233 /\ dbc_file[p].dlc = 8

HasNameAndId(r) == Truthy(r.name) /\ Truthy(r.can_id)

\* C10: a row whose name or can_id is missing or empty is skipped: it never
\* aborts the load, and it contributes no signal.
C10_RowsWithoutNameOrIdSkipped ==
    /\ (pc = "crashed" /\ lines = <<>>) => HasNameAndId(rows[row_no + 1])
    /\ pc = "dbc_done" => Cardinality(SgPlaces) = Len(SelectSeq(csv_rows, HasNameAndId))

\* ---------------------------------------------------------------- codec

FrameLo  == <<0, 127, 128, 84, 165, 0, 255, 126>>
FrameMix == <<171, 205, 239, 1, 35, 69, 103, 137>>
FrameAlt == <<85, 170, 51, 204, 15, 240, 90, 165>>

\* the 8-byte frames the codec is called with
CodecFrames == {Frame18, FrameHi, FrameLo, FrameMix, FrameAlt}

\* every (start_bit, bit_length) inside a frame of 8 bytes
BitFields == { <<s, n>> \in (0..63) \X (1..64) : s + n <= 64 }

\* the widest field to_signed is called with
MaxSignedBits == 9

CodecInit ==
    /\ pc = "codec"
    /\ csv_rows = <<>>
    /\ call = NoCall
    /\ LogIdle /\ TableIdle /\ FrameIdle

\* raw = get_little_endian(data8, start_bit, bit_len)
CallLittleEndian(d, s, n) ==
    /\ pc = "codec" /\ call = NoCall
    /\ call' = [fn |-> "get_little_endian", data |-> d, start_bit |-> s, bit_len |-> n,
                result |-> get_little_endian(d, s, n)]
    /\ UNCHANGED <<pc, csv_rows, logVars, tableVars, frameVars>>

\* raw = get_big_endian(data8, start_bit, bit_len)
CallBigEndian(d, s, n) ==
    /\ pc = "codec" /\ call = NoCall
    /\ call' = [fn |-> "get_big_endian", data |-> d, start_bit |-> s, bit_len |-> n,
                result |-> get_big_endian(d, s, n)]
    /\ UNCHANGED <<pc, csv_rows, logVars, tableVars, frameVars>>

\* raw = to_signed(raw, bit_len)
CallToSigned(v, n) ==
    /\ pc = "codec" /\ call = NoCall
    /\ call' = [fn |-> "to_signed", value |-> v, bit_len |-> n, result |-> to_signed(v, n)]
    /\ UNCHANGED <<pc, csv_rows, logVars, tableVars, frameVars>>

\* the caller takes the result
CallReturn ==
    /\ pc = "codec" /\ call # NoCall
    /\ call' = NoCall
    /\ UNCHANGED <<pc, csv_rows, logVars, tableVars, frameVars>>

CodecNext ==
    \/ \E d \in CodecFrames, f \in BitFields : CallLittleEndian(d, f[1], f[2])
    \/ \E d \in CodecFrames, f \in BitFields : CallBigEndian(d, f[1], f[2])
    \/ \E n \in 1..MaxSignedBits : \E v \in 0..(Pow2(n) - 1) : CallToSigned(v, n)
    \/ CallReturn

SpecCodec == CodecInit /\ [][CodecNext]_vars

\* bit b (0 the least significant) of byte i (0 the first) of a frame
FrameBit(d, i, b) == (d[i + 1] \div Pow2(b)) % 2

\* the low three bytes of a frame as one little-endian number
Low24(d) == d[1] + 256 * d[2] + 65536 * d[3]

\* C4: get_little_endian returns (frame as little-endian u64 >> start_bit) &
\* ((1 << bit_length) - 1): output bit k < bit_length is bit (start_bit+k) mod 8
\* of byte (start_bit+k) div 8, every higher output bit is 0; for a field inside
\* the low three bytes the value is that of the shift and mask as numbers.
C4_LittleEndianIsShiftAndMask ==
    call.fn = "get_little_endian" =>
        /\ \A k \in 0..63 :
               BitAt(call.result, k)
                   = IF k < call.bit_len
                     THEN FrameBit(call.data, (call.start_bit + k) \div 8,
                                   (call.start_bit + k) % 8)
                     ELSE 0
        /\ Len(call.result) <= 64
        /\ call.start_bit + call.bit_len <= 24 =>
               BitsToNat(call.result)
                   = (Low24(call.data) \div Pow2(call.start_bit)) % Pow2(call.bit_len)

\* C4 witness: a field that crosses a byte boundary off the byte grid
C4_Witness ==
    /\ call.fn = "get_little_endian"
    /\ call.data = FrameHi /\ call.start_bit = 12 /\ call.bit_len = 10
    /\ BitsToNat(call.result) = 1016

\* the byte a run of 8 bits stands for, the bits taken most significant first
\* from the top of an n-bit result
ResultByte(bits, n, m) == BitsToNat(SubSeq(bits, n - 8 * m + 1, n - 8 * m + 8))

\* C5: for a byte-aligned field start_bit = 8*j, bit_length = 8*k, get_big_endian
\* returns the big-endian integer of bytes j..j+k-1, byte j most significant;
\* start_bit = 0, bit_length = 8 returns byte 0 unchanged.
C5_BigEndianByteAligned ==
    (call.fn = "get_big_endian" /\ call.start_bit % 8 = 0 /\ call.bit_len % 8 = 0) =>
        /\ Len(call.result) = call.bit_len
        /\ \A m \in 1..(call.bit_len \div 8) :
               ResultByte(call.result, call.bit_len, m) = call.data[(call.start_bit \div 8) + m]
        /\ (call.start_bit = 0 /\ call.bit_len = 8) => BitsToNat(call.result) = call.data[1]
        /\ call.bit_len = 16 =>
               BitsToNat(call.result)
                   = 256 * call.data[(call.start_bit \div 8) + 1]
                     + call.data[(call.start_bit \div 8) + 2]

\* C5 witness: byte 0 = 0xAB read back as 0xAB, and a two-byte field
C5_Witness ==
    /\ call.fn = "get_big_endian"
    /\ \/ (call.data = FrameMix /\ call.start_bit = 0 /\ call.bit_len = 8
           /\ BitsToNat(call.result) = 171)
       \/ (call.data = FrameMix /\ call.start_bit = 8 /\ call.bit_len = 16
           /\ BitsToNat(call.result) = 256 * 205 + 239)

\* C6: for raw in [0, 2^n), to_signed(raw, n) is raw below 2^(n-1) and raw - 2^n
\* from there on: it lies in [-2^(n-1), 2^(n-1) - 1] and is congruent to raw
\* modulo 2^n (n = 8: 0xFF -> -1, 0x80 -> -128, 0x7F -> 127).
C6_ToSignedTwosComplement ==
    call.fn = "to_signed" =>
        /\ call.result = IF call.value < Pow2(call.bit_len - 1)
                         THEN call.value
                         ELSE call.value - Pow2(call.bit_len)
        /\ call.result >= -Pow2(call.bit_len - 1)
        /\ call.result <= Pow2(call.bit_len - 1) - 1
        /\ (call.result - call.value) % Pow2(call.bit_len) = 0
        /\ (call.bit_len = 8 /\ call.value = 255) => call.result = -1
        /\ (call.bit_len = 8 /\ call.value = 128) => call.result = -128
        /\ (call.bit_len = 8 /\ call.value = 127) => call.result = 127

\* C6 witness: 0x80 at 8 bits gives -128
C6_Witness ==
    call.fn = "to_signed" /\ call.bit_len = 8 /\ call.value = 128 /\ call.result = -128

\* -------------------------------------------------- single-frame decoder
\* decode_frame_from_csv.py carries its own copies of get_little_endian,
\* get_big_endian and to_signed, the same text as the log decoder's.

\* decode_frame_from_csv.parse_can_id, after s = s.strip()
frame_parse_can_id_of(s) ==
    IF StartsWith(Lower(s), <<"0", "x">>) THEN IntBase16(s) ELSE IntFloat(s)

\* decode_frame_from_csv.parse_can_id; None has no strip()
frame_parse_can_id(s) == IF s = None THEN Raise ELSE frame_parse_can_id_of(Strip(s))

\* hex_str.replace(",", " ")
ReplaceComma(s) == [i \in DOMAIN s |-> IF s[i] = "," THEN " " ELSE s[i]]

parse_bytes_of(parts) ==
    IF Len(parts) # 8 THEN Raise
    ELSE BytesOrRaise([i \in DOMAIN parts |-> IntBase16(parts[i])])

\* decode_frame_from_csv.parse_bytes: exactly 8 hex bytes or ValueError
parse_bytes(hex_str) == parse_bytes_of(SplitWs(ReplaceComma(hex_str)))

\* the loop over the table: rows without can_id are passed over, the rows of
\* the wanted id are kept, a can_id that does not parse raises
RECURSIVE frame_rows_from(_, _, _)
RECURSIVE frame_rows_keep(_, _, _, _)
frame_rows_from(rs, can_id, acc) ==
    IF rs = <<>> THEN Ok(acc)
    ELSE IF ~Truthy(Head(rs).can_id) THEN frame_rows_from(Tail(rs), can_id, acc)
    ELSE frame_rows_keep(rs, can_id, acc, frame_parse_can_id(Head(rs).can_id))

frame_rows_keep(rs, can_id, acc, id) ==
    IF ~id.ok THEN Raise
    ELSE frame_rows_from(Tail(rs), can_id,
                         IF id.val = can_id THEN Append(acc, Head(rs)) ELSE acc)

\* int(float(row[...])): a missing or empty cell raises
frame_int(x) == IF x = None THEN Raise ELSE IntFloat(x)

\* float(row[...]), in tenths
frame_float(x) == IF x = None THEN Raise ELSE FloatTenths(x)

\* "motorola" in endian or "big" in endian, endian = row["endian"].lower()
frame_is_big_endian(endian) == Contains(endian, T_motorola) \/ Contains(endian, T_big)

\* "signed" in signedness, signedness = row["signedness"].lower()
frame_is_signed(signedness) == Contains(signedness, T_signed)

\* raw before the sign step
frame_unsigned(data, start_bit, bit_len, big) ==
    BitsToNat(IF big
              THEN get_big_endian(data, start_bit, bit_len)
              ELSE get_little_endian(data, start_bit, bit_len))

frame_sign_step(raw, bit_len, signed) == IF signed THEN to_signed(raw, bit_len) ELSE raw

\* f"{name}: {value} {units} (raw={raw})", value = raw * scale + offset in tenths
frame_signal_line(row, raw, scale, offset) ==
    [kind |-> "signal", name |-> row.name, value |-> raw * scale + offset,
     units |-> row.units, raw |-> raw]

frame_print_row_of(row, data, start_bit, bit_len, offset, scale) ==
    IF ~(start_bit.ok /\ bit_len.ok /\ offset.ok /\ scale.ok) THEN Raise
    ELSE IF /\ frame_is_big_endian(Lower(row.endian))
            /\ ~big_endian_in_range(data, start_bit.val, bit_len.val)
    THEN Raise
    ELSE Ok(frame_signal_line(
                row,
                frame_sign_step(
                    frame_unsigned(data, start_bit.val, bit_len.val,
                                   frame_is_big_endian(Lower(row.endian))),
                    bit_len.val,
                    frame_is_signed(Lower(row.signedness))),
                scale.val, offset.val))

\* one pass of the loop over the kept rows
frame_print_row(row, data) ==
    IF row.signedness = None \/ row.endian = None THEN Raise
    ELSE frame_print_row_of(row, data, frame_int(row.start_bit), frame_int(row.bit_length),
                            frame_float(row.offset), frame_float(row.scale))

\* f"CAN ID {hex(can_id)}  DATA {data.hex(' ')}"
FrameHeaderLine(can_id, data) == [kind |-> "header", can_id |-> can_id, data |-> data]

\* "-" * 60
FrameRuleLine == [kind |-> "rule", dashes |-> 60]

FrameRowPool ==
    { Row(<<"K">>, <<"0","x","4","D","1">>, <<"V">>,
        <<"0">>, <<"8">>, <<"0">>, <<"1">>,
        <<"s","i","g","n","e","d">>, <<"i","n","t","e","l">>, <<"8">>),
      Row(<<"K">>, <<"0","x","4","D","1">>, <<"V">>,
        <<"0">>, <<"8">>, <<"0">>, <<"1">>,
        <<"u","n","s","i","g","n","e","d">>, <<"l","i","t","t","l","e">>, <<"8">>),
      Row(<<"K">>, <<"0","x","4","D","1">>, <<"V">>,
        <<"0">>, <<"8">>, <<"0">>, <<"1">>,
        <<"s">>, <<"i","n","t","e","l">>, <<"8">>),
      Row(<<"K">>, <<"0","x","4","D","1">>, <<"V">>,
        <<"0">>, <<"8">>, <<"0">>, <<"1">>,
        <<"1">>, <<"i","n","t","e","l">>, <<"8">>),
      Row(<<"K">>, <<"0","x","4","D","1">>, <<"V">>,
        <<"0">>, <<"8">>, <<"0">>, <<"1">>,
        <<"t","r","u","e">>, <<"i","n","t","e","l">>, <<"8">>),
      Row(<<"K">>, <<"0","x","4","D","1">>, <<"V">>,
        <<"0">>, <<"8">>, <<"0">>, <<"1">>,
        <<"y","e","s">>, <<"i","n","t","e","l">>, <<"8">>),
      Row(<<"K">>, <<"0","x","4","D","1">>, <<"V">>,
        <<"0">>, <<"8">>, <<"0">>, <<"1">>,
        <<" ","S","i","g","n","e","d"," ">>, <<"i","n","t","e","l">>, <<"8">>),
      Row(<<"K">>, <<"0","x","4","D","1">>, <<"V">>,
        <<"0">>, <<"8">>, <<"0">>, <<"1">>,
        <<>>, <<"i","n","t","e","l">>, <<"8">>),
      Row(<<"H">>, <<"1","2","3","3">>, <<"V">>,
        <<"1","6">>, <<"8">>, <<"0">>, <<"1">>,
        <<"s","i","g","n","e","d">>, <<"b","i","g">>, <<"8">>),
      Row(<<"M">>, <<"0","x","4","d","1">>, <<"A">>,
        <<"8">>, <<"1","6">>, <<"0",".","5">>, <<"0",".","1">>,
        <<"U","n","s","i","g","n","e","d">>, <<"M","o","t","o","r","o","l","a">>, <<"8">>),
      Row(<<"P">>, <<"1","2","3","3",".","0">>, <<"V">>,
        <<"0">>, <<"8">>, <<"0">>, <<"1">>,
        <<"u","n","s","i","g","n","e","d">>, <<"m","s","b">>, <<"8">>),
      Row(<<"X">>, <<>>, <<"V">>,
        <<"0">>, <<"8">>, <<"0">>, <<"1">>,
        <<"s","i","g","n","e","d">>, <<"i","n","t","e","l">>, <<"8">>),
      Row(<<"Y">>, <<"0","x","4","D","1">>, <<"V">>,
        <<>>, <<"8">>, <<"0">>, <<"1">>,
        <<"s","i","g","n","e","d">>, <<"i","n","t","e","l">>, <<"8">>),
      Row(<<"N">>, <<"1","2","3","3">>, <<"V">>,
        <<"0">>, <<"8">>, <<"0">>, <<"1">>,
        None, <<"i","n","t","e","l">>, <<"8">>) }

\* the longest signal table handed to the frame decoder
MaxFrameRows == 2

FrameTables == UNION { [1..n -> FrameRowPool] : n \in 0..MaxFrameRows }

\* sys.argv[2], sys.argv[3]
FrameArgs ==
    { [can_id |-> <<"0","x","4","D","1">>, data |-> <<"F","F"," ","8","0"," ","7","F"," ","A","B"," ","5","A"," ","F","F"," ","0","0"," ","8","1">>],
      [can_id |-> <<"1","2","3","3">>,  data |-> <<"0","1",",","0","2",",","0","3",",","0","4",",","0","5",",","0","6",",","0","7",",","0","8">>],
      [can_id |-> <<"0","x","4","D","1">>, data |-> <<"0","1"," ","0","2">>],
      [can_id |-> <<"z","z">>,    data |-> <<"0","1"," ","0","2"," ","0","3"," ","0","4"," ","0","5"," ","0","6"," ","0","7"," ","0","8">>] }

FrameInit ==
    /\ pc = "frame_args"
    /\ csv_rows \in FrameTables
    /\ argv \in FrameArgs
    /\ frame_can_id = -1 /\ frame_data = <<>>
    /\ LogIdle /\ TableIdle /\ call = NoCall

FrameParseArgs_of(id, data) ==
    IF id.ok /\ data.ok
    THEN pc' = "frame_load" /\ frame_can_id' = id.val /\ frame_data' = data.val
    ELSE pc' = "crashed" /\ UNCHANGED <<frame_can_id, frame_data>>

\* can_id = parse_can_id(sys.argv[2]); data = parse_bytes(sys.argv[3])
FrameParseArgs ==
    /\ pc = "frame_args"
    /\ FrameParseArgs_of(frame_parse_can_id(argv.can_id), parse_bytes(argv.data))
    /\ UNCHANGED <<csv_rows, argv, logVars, tableVars, call>>

FrameLoadRows_of(r) ==
    IF ~r.ok THEN pc' = "crashed" /\ UNCHANGED <<rows, lines>>
    ELSE IF r.val = <<>>
    THEN /\ pc' = "frame_done"
         /\ lines' = <<TextLine(<<"N","o"," ","s","i","g","n","a","l","s"," ","f","o","r"," ","t","h","a","t"," ","C","A","N"," ","I","D",".">>)>>
         /\ UNCHANGED rows
    ELSE /\ pc' = "frame_print"
         /\ rows' = r.val
         /\ lines' = <<FrameHeaderLine(frame_can_id, frame_data), FrameRuleLine>>

\* the rows of the wanted id are read from the table; the header is printed,
\* or "No signals" and the run returns
FrameLoadRows ==
    /\ pc = "frame_load"
    /\ FrameLoadRows_of(frame_rows_from(csv_rows, frame_can_id, <<>>))
    /\ UNCHANGED <<csv_rows, frameVars, logVars, row_no, by_id, msg_no, dbc_file, call>>

FramePrintRow_of(r) ==
    IF r.ok
    THEN lines' = Append(lines, r.val) /\ row_no' = row_no + 1 /\ UNCHANGED pc
    ELSE pc' = "crashed" /\ UNCHANGED <<lines, row_no>>

\* for row in rows: decode the signal and print it
FramePrintRow ==
    /\ pc = "frame_print"
    /\ row_no < Len(rows)
    /\ FramePrintRow_of(frame_print_row(rows[row_no + 1], frame_data))
    /\ UNCHANGED <<csv_rows, frameVars, logVars, rows, by_id, msg_no, dbc_file, call>>

\* return 0 after the loop
FrameReturn ==
    /\ pc = "frame_print"
    /\ row_no = Len(rows)
    /\ pc' = "frame_done"
    /\ UNCHANGED <<csv_rows, frameVars, logVars, tableVars, call>>

FrameNext == FrameParseArgs \/ FrameLoadRows \/ FramePrintRow \/ FrameReturn

SpecFrame == FrameInit /\ [][FrameNext]_vars

\* the signedness texts read as signed: trimmed and case-folded, one of
\* signed, s, 1, true, yes
SaysSigned(t) == Strip(Lower(t)) \in {T_signed, T_s, T_1, T_true, T_yes}

\* the field of a printed row before any sign step
PrintedUnsigned(row) ==
    frame_unsigned(frame_data, IntFloat(row.start_bit).val, IntFloat(row.bit_length).val,
                   frame_is_big_endian(Lower(row.endian)))

\* C3: every tool that reads the table treats a signal as signed exactly when
\* its trimmed, case-folded signedness text is one of signed, s, 1, true, yes:
\* the DBC serializer's is_signed and the log decoder's load_signals say so, and
\* the raw the single-frame decoder prints is sign-extended for those texts and
\* for no other ("unsigned" is printed without sign extension).
C3_SignednessSameInEveryTool ==
    \A i \in 1..row_no :
        /\ is_signed(rows[i].signedness) = SaysSigned(rows[i].signedness)
        /\ log_is_signed(rows[i].signedness) = SaysSigned(rows[i].signedness)
        /\ lines[i + 2].raw
               = IF SaysSigned(rows[i].signedness)
                 THEN to_signed(PrintedUnsigned(rows[i]), IntFloat(rows[i].bit_length).val)
                 ELSE PrintedUnsigned(rows[i])

====
